---- MODULE Spec2Model ----
(***************************************************************************)
(* A model of the GA4GH Flask frontend (src/ga4gh/frontend.py): the        *)
(* version gate, the route table, the before_request authentication gate,  *)
(* the OIDC login handshake and the exception handler.                     *)
(*                                                                         *)
(* One request is handled to completion by one action: routing, the        *)
(* before_request hook, the view function and the error handler.           *)
(***************************************************************************)
EXTENDS Integers, Sequences, FiniteSets, TLC

\* Python's None: an absent session entry, an absent query parameter.
None == "None"

(***************************************************************************)
(* Bounds of the model.                                                    *)
(***************************************************************************)
\* How many random strings oic.oauth2.rndstr hands out in one behaviour.
MaxRnd == 5

\* The callers: browsers, which keep the session cookie from one request to
\* the next, and programmatic clients, which send no cookie and keep none.
Browsers == {"browser"}

Clients == {"cli"}

Sessions == Browsers \cup Clients

\* The dataset identifiers a request body may name.
Datasets == {"ds1", "ds2"}

\* The identities the provider's userinfo endpoint may report.
Emails == {"alice", "mallory"}

\* The authorization codes a callback may carry.
Codes == {"c1"}

(***************************************************************************)
(* Module constants, frontend.py:32-34.                                    *)
(***************************************************************************)
MIMETYPE == "application/json"

SEARCH_ENDPOINT_METHODS == {"POST", "OPTIONS"}

(***************************************************************************)
(* Strings as the code handles them.  A version string is a sequence of    *)
(* one-character strings, so that strip and split are computed.            *)
(***************************************************************************)
\* The segments that occur in the version position of a path.
CharsOf(s) ==
    CASE s = "current"       -> <<"c","u","r","r","e","n","t">>
      [] s = "v0.6.0"        -> <<"v","0",".","6",".","0">>
      [] s = "0.6.0"         -> <<"0",".","6",".","0">>
      [] s = "V0.6.0"        -> <<"V","0",".","6",".","0">>
      [] s = "v0.6.1"        -> <<"v","0",".","6",".","1">>
      [] s = "v0.6"          -> <<"v","0",".","6">>
      [] s = "v0.6.0.0"      -> <<"v","0",".","6",".","0",".","0">>
      [] s = "va.b.c"        -> <<"v","a",".","b",".","c">>
      [] s = "nosuchversion" ->
            <<"n","o","s","u","c","h","v","e","r","s","i","o","n">>
      [] s = "oauth2callback" ->
            <<"o","a","u","t","h","2","c","a","l","l","b","a","c","k">>
      [] OTHER               -> <<"x">>

\* protocol.version, read at frontend.py:78 (ga4gh.protocol is imported).
ProtocolVersion == <<"0",".","6",".","0">>

\* Version.currentString, frontend.py:71.
currentString == <<"c","u","r","r","e","n","t">>

\* str.strip('vV'): drop leading and trailing 'v' and 'V'.
RECURSIVE LStrip(_)
LStrip(cs) ==
    IF cs # <<>> /\ Head(cs) \in {"v", "V"} THEN LStrip(Tail(cs)) ELSE cs

RECURSIVE RStrip(_)
RStrip(cs) ==
    IF cs # <<>> /\ cs[Len(cs)] \in {"v", "V"}
    THEN RStrip(SubSeq(cs, 1, Len(cs) - 1))
    ELSE cs

\* A faulty variant: the version marker is left in place.
Strip_none(cs) == cs

Strip(cs) == RStrip(LStrip(cs))

\* str.split('.'): the components between dots; "" splits to one empty one.
RECURSIVE SplitFrom(_, _, _)
SplitFrom(cs, cur, acc) ==
    IF cs = <<>> THEN Append(acc, cur)
    ELSE IF Head(cs) = "." THEN SplitFrom(Tail(cs), <<>>, Append(acc, cur))
    ELSE SplitFrom(Tail(cs), Append(cur, Head(cs)), acc)

Split(cs) == SplitFrom(cs, <<>>, <<>>)

\* Version.parseString then Version.__init__(major, minor, revision):
\* any other number of components is a TypeError of the call.
parseString(versionString) ==
    LET versions == Split(Strip(versionString))
    IN  IF Len(versions) = 3
        THEN [raised |-> None, version |-> versions]
        ELSE [raised |-> "TypeError", version |-> <<>>]

\* Version.isCurrentVersion: what it raised, the value it returned, and
\* whether parseString was called on the string.
isCurrentVersion(versionString) ==
    IF versionString = currentString
    THEN [raised |-> None, value |-> TRUE, parsed |-> FALSE]
    ELSE LET a == parseString(versionString)
             b == parseString(ProtocolVersion)
         IN  IF a.raised # None
             THEN [raised |-> a.raised, value |-> FALSE, parsed |-> TRUE]
             ELSE IF b.raised # None
             THEN [raised |-> b.raised, value |-> FALSE, parsed |-> TRUE]
             ELSE [raised |-> None, value |-> a.version = b.version,
                   parsed |-> TRUE]

(***************************************************************************)
(* The route table: every app.route / DisplayedRoute registration, in the  *)
(* order of the file.  A pattern is a sequence of segments; "<any>" is a   *)
(* plain placeholder (<version>, <id>), "<no(search)>" the NoConverter     *)
(* placeholder.                                                            *)
(***************************************************************************)
ANY == "<any>"

NOSEARCH == "<no(search)>"

\* A route registered without methods is registered for GET.
GET_METHODS == {"GET"}

Rule(pattern, endpoint, methods, kind) ==
    [pattern |-> pattern, endpoint |-> endpoint, methods |-> methods,
     kind |-> kind]

\* A faulty variant: every get route is taken for an implemented one.
GetRule_implemented(resource, placeholder, endpoint, kind) ==
    Rule(<<ANY, resource, placeholder>>, endpoint, GET_METHODS, "get")

GetRule(resource, placeholder, endpoint, kind) ==
    Rule(<<ANY, resource, placeholder>>, endpoint, GET_METHODS, kind)

SearchRule(resource, endpoint, kind) ==
    Rule(<<ANY, resource, "search">>, endpoint, SEARCH_ENDPOINT_METHODS, kind)

Rules ==
    << Rule(<<>>, "index", GET_METHODS, "index"),
       Rule(<<ANY>>, "indexRedirect", GET_METHODS, "indexRedirect"),
       GetRule("references", ANY, "getReference", "get"),
       GetRule("referencesets", ANY, "getReferenceSet", "get"),
       Rule(<<ANY, "references", ANY, "bases">>, "listReferenceBases",
            GET_METHODS, "list"),
       SearchRule("callsets", "searchCallSets", "search"),
       SearchRule("readgroupsets", "searchReadGroupSets", "search"),
       SearchRule("reads", "searchReads", "search"),
       SearchRule("referencesets", "searchReferenceSets", "search"),
       SearchRule("references", "searchReferences", "search"),
       SearchRule("variantsets", "searchVariantSets", "search"),
       SearchRule("variants", "searchVariants", "search"),
       SearchRule("datasets", "searchDatasets", "search"),
       GetRule("variantsets", NOSEARCH, "getVariantSet", "get"),
       GetRule("callsets", NOSEARCH, "getCallset", "notImplemented"),
       GetRule("alleles", NOSEARCH, "getAllele", "notImplemented"),
       GetRule("variants", NOSEARCH, "getVariant", "notImplemented"),
       Rule(<<ANY, "variantsets", ANY, "sequences", ANY>>,
            "getVariantSetSequence", GET_METHODS, "notImplemented"),
       GetRule("feature", ANY, "getFeature", "notImplemented"),
       Rule(<<ANY, "sequences", ANY, "bases">>, "getSequenceBases",
            GET_METHODS, "notImplemented"),
       GetRule("mode", ANY, "getMode", "notImplemented"),
       GetRule("datasets", NOSEARCH, "getDataset", "notImplemented"),
       GetRule("readgroupsets", NOSEARCH, "getReadGroupSet",
               "notImplemented"),
       GetRule("readgroups", ANY, "getReadGroup", "notImplemented"),
       SearchRule("genotypephenotype", "searchGenotypePephenotype",
                  "notImplemented"),
       SearchRule("individuals", "searchIndividuals", "notImplemented"),
       SearchRule("samples", "searchSamples", "notImplemented"),
       SearchRule("experiments", "searchExperiments", "notImplemented"),
       SearchRule("individualgroups", "searchIndividualGroups",
                  "notImplemented"),
       SearchRule("analyses", "searchAnalyses", "notImplemented"),
       SearchRule("sequences", "searchSequences", "notImplemented"),
       SearchRule("joins", "searchJoins", "notImplemented"),
       Rule(<<ANY, "subgraph", "segments">>, "subgraphSegments",
            SEARCH_ENDPOINT_METHODS, "notImplemented"),
       Rule(<<ANY, "subgraph", "joins">>, "subgraphJoins",
            SEARCH_ENDPOINT_METHODS, "notImplemented"),
       SearchRule("features", "searchFeatures", "notImplemented"),
       Rule(<<ANY, "variantsets", ANY, "sequences", "search">>,
            "searchVariantSetSequences", SEARCH_ENDPOINT_METHODS,
            "notImplemented"),
       SearchRule("alleles", "searchAlleles", "notImplemented"),
       Rule(<<"oauth2callback">>, "oidcCallback", {"GET"}, "oidcCallback") >>

\* The methods a rule answers: those registered, HEAD with GET, and OPTIONS
\* (answered by the framework itself unless the rule registers it).
AllowedMethods(rule) ==
    rule.methods \cup (IF "GET" \in rule.methods THEN {"HEAD"} ELSE {})
                 \cup {"OPTIONS"}

AutomaticOptions(rule) == "OPTIONS" \notin rule.methods

\* NoConverter.to_python: a value among the items is a ValidationError,
\* that is, the rule does not match.
NoConverter(items, value) == value \notin items

SegmentMatches(p, seg) ==
    IF p = ANY THEN TRUE
    ELSE IF p = NOSEARCH THEN NoConverter({"search"}, seg)
    ELSE p = seg

PathMatches(pattern, path) ==
    /\ Len(pattern) = Len(path)
    /\ \A i \in 1..Len(path) : SegmentMatches(pattern[i], path[i])

\* The number of placeholders of a pattern: the router tries the rules
\* with fewer placeholders first, then in registration order.
RECURSIVE Placeholders(_)
Placeholders(pattern) ==
    IF pattern = <<>> THEN 0
    ELSE (IF Head(pattern) \in {ANY, NOSEARCH} THEN 1 ELSE 0)
         + Placeholders(Tail(pattern))

\* The rules in the order the router tries them, each with its rank.
Ranked ==
    [i \in 1..Len(Rules) |->
        [rule |-> Rules[i], weight |-> Placeholders(Rules[i].pattern),
         index |-> i]]

Before(a, b) ==
    \/ a.weight < b.weight
    \/ a.weight = b.weight /\ a.index <= b.index

NoRule == Rule(<<>>, None, {}, None)

\* The router's answer for a method and a path: the first rule, in the
\* router's order, that matches the path and answers the method;
\* MethodNotAllowed (405) when only rules of other methods match the path,
\* NotFound (404) when none does.
resolve(method, path) ==
    LET byPath == {i \in 1..Len(Rules) : PathMatches(Rules[i].pattern, path)}
        both   == {i \in byPath : method \in AllowedMethods(Rules[i])}
        best   == CHOOSE i \in both :
                    \A j \in both : Before(Ranked[i], Ranked[j])
    IN  IF both # {}
        THEN [raised |-> None, endpoint |-> Rules[best].endpoint,
              rule |-> Rules[best]]
        ELSE IF byPath # {}
        THEN [raised |-> "405", endpoint |-> None, rule |-> NoRule]
        ELSE [raised |-> "404", endpoint |-> None, rule |-> NoRule]

(***************************************************************************)
(* The state.                                                              *)
(***************************************************************************)
VARIABLES
    oidcClient,    \* app.oidcClient: None, or the configured client
    permissions,   \* app.permissions: identity -> sequence of dataset ids
    tokenMap,      \* app.tokenMap: session token -> login record
    session,       \* flask.session of each browser session
    rnd,           \* how many random strings rndstr has handed out
    last,          \* the request handled last, its response and what it did
    inflight,      \* the callback each worker is in the middle of
    restart,       \* the sessions whose callback failed, no login since
    checked        \* a version string and what isCurrentVersion made of it

vars ==
    <<oidcClient, permissions, tokenMap, session, rnd, last, inflight,
      restart, checked>>

\* The PERMISSIONS tables a deployment may configure.
PermissionTables ==
    { [u \in {"alice"} |-> <<"ds1">>] }

\* The datasetIds lists a request body may carry.
DatasetIdLists == {<<>>, <<"ds1">>, <<"ds2">>, <<"ds1", "ds2">>}

\* A body that is no JSON object with a datasetIds field.
NoDatasetIds ==
    [hasDatasetIds |-> FALSE, datasetIds |-> <<>>, malformed |-> FALSE]

Bodies ==
    {NoDatasetIds} \cup
    {[hasDatasetIds |-> TRUE, datasetIds |-> l, malformed |-> FALSE] :
        l \in DatasetIdLists}

\* A body that does not parse as JSON.
MalformedBody ==
    [hasDatasetIds |-> FALSE, datasetIds |-> <<>>, malformed |-> TRUE]

\* The query parameters of a request that is no authorization response.
NoArgs == [valid |-> FALSE, state |-> None, code |-> None]

\* What the provider's token endpoint may answer: something that is no
\* access-token response, or one whose id token embeds a nonce.
NoATR == [isATR |-> FALSE, nonce |-> None]

\* What a backend operation may answer: a response string, a typed
\* exception (no such object), or an unexpected failure.
BackendAnswers == {"ok", "ObjectNotFoundException", "BackendFailure"}

EmptySession == [state |-> None, nonce |-> None, key |-> None, userId |-> None]

(***************************************************************************)
(* Exceptions and responses.                                               *)
(***************************************************************************)
\* The subclasses of exceptions.BaseServerException the frontend and the
\* backend raise; anything else is an unexpected failure.
BaseServerExceptions ==
    {"NotAuthenticatedException", "NotImplementedException",
     "VersionNotSupportedException", "PathNotFoundException",
     "MethodNotAllowedException", "UnsupportedMediaTypeException",
     "ObjectNotFoundException", "ServerError"}

Exc(kind, arg) == [kind |-> kind, arg |-> arg]

\* handleException: a typed exception is serialised as it is, any other
\* becomes exceptions.getServerError(exception).
handleException(exception) ==
    LET serverException ==
            IF exception.kind \in BaseServerExceptions
            THEN exception
            ELSE Exc("ServerError", None)
    IN  [kind |-> "error", error |-> serverException.kind,
         arg |-> serverException.arg]

\* getFlaskResponse(responseString) with status 200.
getFlaskResponse == [kind |-> "ok", error |-> None, arg |-> None]

\* flask.redirect(url).
redirect(url) == [kind |-> "redirect", error |-> None, arg |-> url]

\* What one stage of a request did: it returned nothing (the request goes
\* on), returned a response, or raised; with the session, the random
\* counter and the token map as it left them.
NoExc == Exc(None, None)

Stage(outcome, resp, exc, sess, r, tm, trace) ==
    [outcome |-> outcome, resp |-> resp, exc |-> exc, sess |-> sess,
     rnd |-> r, tokenMap |-> tm, trace |-> trace]

Returns(resp, sess, r, tm, trace) ==
    Stage("response", resp, NoExc, sess, r, tm, trace)

Raises(exc, sess, r, tm, trace) ==
    Stage("raise", getFlaskResponse, exc, sess, r, tm, trace)

GoesOn(sess, r, tm, trace) ==
    Stage("none", getFlaskResponse, NoExc, sess, r, tm, trace)

\* What a request did besides answering: whether the gate consulted the
\* token map and how it ended, the requests made to the provider and their
\* answers, the view function called and the id it was given, whether the
\* body was read, the backend operation called, its argument and its
\* answer.
NoTrace ==
    [gate |-> None, consulted |-> FALSE, loginStarted |-> FALSE,
     tokenRequested |-> FALSE, atr |-> NoATR,
     userInfoRequested |-> FALSE, email |-> None, view |-> None,
     id |-> None, bodyRead |-> FALSE, backend |-> None, backendArg |-> NoDatasetIds, backendAnswer |-> None]

\* A faulty variant: the same string at every call.
rndstr_fixed(r) == ToString(1)

\* oic.oauth2.rndstr(SECRET_KEY_LENGTH): a string never handed out before,
\* named by its rank among the strings handed out.
rndstr(r) == ToString(r + 1)

(***************************************************************************)
(* The authentication gate.                                                *)
(***************************************************************************)
\* startLogin: a fresh state and nonce in the session, and a redirect to
\* the provider's authorization endpoint.
startLogin(sess, r, tm, trace) ==
    LET state == rndstr(r)
        nonce == rndstr(r + 1)
    IN  Returns(redirect("provider"),
                [sess EXCEPT !.state = state, !.nonce = nonce],
                r + 2, tm, [trace EXCEPT !.loginStarted = TRUE])

\* flask.request.get_json() or {}: the body, when the request declares JSON.
jsonBody(req) ==
    IF req.mimetype = MIMETYPE THEN req.body ELSE NoDatasetIds

\* flask.request.get_json() on a request that declares JSON and whose body
\* does not parse: on_json_loading_failed raises BadRequest, the
\* framework's 400.
jsonFails(req) == req.mimetype = MIMETYPE /\ req.body.malformed

\* "validIds is []": the identity of the list just built against that of a
\* new empty list; two distinct list objects are never the same object.
IsNewEmptyList(validIds) == FALSE

\* A faulty variant: the 'key' parameter comes first.
requestKey_query(req, sess) ==
    IF req.keyArg # None THEN req.keyArg ELSE sess.key

\* The key the gate looks up: session 'key', else the 'key' parameter.
requestKey(req, sess) == IF sess.key # None THEN sess.key ELSE req.keyArg

\* A faulty variant: the callback endpoint is not exempted.
isCallbackEndpoint_never(endpoint) == FALSE

\* flask.request.endpoint == 'oidcCallback'.
isCallbackEndpoint(endpoint) == endpoint = "oidcCallback"

\* A faulty variant: every key is taken for a token of the map.
tokenKnown_always(tm, key) == TRUE

\* app.tokenMap.get(key) is not None.
tokenKnown(tm, key) == key \in DOMAIN tm

\* A faulty variant: the 'key' parameter is never seen.
hasKeyArg_never(req) == FALSE

\* 'key' in flask.request.args.
hasKeyArg(req) == req.keyArg # None

\* A faulty variant: the permissions are checked whatever the body holds.
carriesDatasetIds_always(body) == TRUE

\* "datasetIds" in jsonBody.
carriesDatasetIds(body) == body.hasDatasetIds

\* A faulty variant: the exception does not carry the identity.
unknownUser_anonymous(userId) == Exc("NotAuthenticatedException", None)

\* exceptions.NotAuthenticatedException(userId).
unknownUser(userId) == Exc("NotAuthenticatedException", userId)

\* [dataset for dataset in datasetIds if dataset in userDatasets].
validIdsOf(datasetIds, userDatasets) ==
    SelectSeq(datasetIds,
              LAMBDA dataset :
                  \E i \in 1..Len(userDatasets) : userDatasets[i] = dataset)

\* checkAuthentication, the before_request hook.
checkAuthentication(req, endpoint, sess, r, tm) ==
    IF oidcClient = None THEN GoesOn(sess, r, tm, NoTrace)
    ELSE IF isCallbackEndpoint(endpoint) THEN GoesOn(sess, r, tm, NoTrace)
    ELSE
      LET key   == requestKey(req, sess)
          asked == [NoTrace EXCEPT !.consulted = TRUE]
          \* get_json parses the body of a request that declares JSON
          trace == [asked EXCEPT !.bodyRead = (req.mimetype = MIMETYPE)]
      IN  IF ~tokenKnown(tm, key)
          THEN IF hasKeyArg(req)
               THEN Raises(Exc("NotAuthenticatedException", None),
                           sess, r, tm, asked)
               ELSE startLogin(sess, r, tm, asked)
          ELSE IF jsonFails(req)
          THEN Raises(Exc("400", None), sess, r, tm, trace)
          ELSE IF carriesDatasetIds(jsonBody(req))
          THEN LET userId == tm[key].userId
               IN  IF key \notin DOMAIN tm  \* app.tokenMap[key]: no such key
                   THEN Raises(Exc("KeyError", None), sess, r, tm, trace)
                   ELSE IF userId \notin DOMAIN permissions
                   THEN Raises(unknownUser(userId), sess, r, tm, trace)
                   ELSE LET userDatasets == permissions[userId]
                            validIds ==
                                validIdsOf(jsonBody(req).datasetIds,
                                           userDatasets)
                        IN  IF IsNewEmptyList(validIds)
                            THEN Raises(Exc("NotAuthenticatedException", None),
                                        sess, r, tm, trace)
                            ELSE GoesOn(sess, r, tm, trace)
          ELSE GoesOn(sess, r, tm, trace)

(***************************************************************************)
(* The view functions.  Each gives the set of ways the request may end,    *)
(* one for every answer of the collaborator it asks.                       *)
(***************************************************************************)
\* A faulty variant: the version is not checked.
assertCorrectVersion_skipped(version) == NoExc

\* assertCorrectVersion: the exception it raises, or NoExc.
assertCorrectVersion(version) ==
    LET c == isCurrentVersion(CharsOf(version))
    IN  IF c.raised # None THEN Exc(c.raised, None)
        ELSE IF ~c.value THEN Exc("VersionNotSupportedException", None)
        ELSE NoExc

\* endpoint(...): a backend operation returns a response string, or raises.
endpointCall(op, arg, sess, r, tm, trace) ==
    { LET called == [trace EXCEPT !.backend = op, !.backendArg = arg,
                                  !.backendAnswer = answer]
      IN  IF answer = "ok"
          THEN Returns(getFlaskResponse, sess, r, tm, called)
          ELSE Raises(Exc(answer, None), sess, r, tm, called)
      : answer \in BackendAnswers }

\* A faulty variant: every media type is accepted.
mimetypeAccepted_any(mimetype) == TRUE

\* request.mimetype == MIMETYPE.
mimetypeAccepted(mimetype) == mimetype = MIMETYPE

\* handleHttpPost: the media type, then the endpoint on the raw body read
\* by request.get_data().
handleHttpPost(req, op, sess, r, tm, trace) ==
    IF ~mimetypeAccepted(req.mimetype)
    THEN {Raises(Exc("UnsupportedMediaTypeException", None),
                 sess, r, tm, trace)}
    ELSE endpointCall(op, req.body, sess, r, tm,
                      [trace EXCEPT !.bodyRead = TRUE])

\* handleFlaskGetRequest and handleFlaskListRequest.
handleFlaskGetRequest(req, op, sess, r, tm, trace) ==
    LET bad == assertCorrectVersion(req.path[1])
    IN  IF bad # NoExc THEN {Raises(bad, sess, r, tm, trace)}
        ELSE IF req.method = "GET"
        THEN endpointCall(op, NoDatasetIds, sess, r, tm, trace)
        ELSE {Raises(Exc("MethodNotAllowedException", None),
                     sess, r, tm, trace)}

\* handleFlaskPostRequest.
handleFlaskPostRequest(req, op, sess, r, tm, trace) ==
    LET bad == assertCorrectVersion(req.path[1])
    IN  IF bad # NoExc THEN {Raises(bad, sess, r, tm, trace)}
        ELSE IF req.method = "POST"
        THEN handleHttpPost(req, op, sess, r, tm, trace)
        ELSE IF req.method = "OPTIONS"
        THEN {Returns(getFlaskResponse, sess, r, tm, trace)}
        ELSE {Raises(Exc("MethodNotAllowedException", None),
                     sess, r, tm, trace)}

\* index: the status page.
index(sess, r, tm, trace) == {Returns(getFlaskResponse, sess, r, tm, trace)}

\* indexRedirect.
indexRedirect(req, sess, r, tm, trace) ==
    LET c == isCurrentVersion(CharsOf(req.path[1]))
    IN  IF c.raised = "TypeError"
        THEN {Raises(Exc("PathNotFoundException", None), sess, r, tm, trace)}
        ELSE IF c.value THEN index(sess, r, tm, trace)
        ELSE {Raises(Exc("PathNotFoundException", None), sess, r, tm, trace)}

\* The values a provider may embed as the nonce of an id token: one no
\* session holds, and those the sessions hold.
Nonces == {"guess"} \cup ({session[s].nonce : s \in DOMAIN session} \ {None})

AtrAnswers == {NoATR} \cup {[isATR |-> TRUE, nonce |-> n] : n \in Nonces}

\* The 'email' of the userinfo answer: an identity, or None when absent.
EmailAnswers == Emails \cup {None}

\* A faulty variant: the map is built anew around the record.
Store_alone(tm, key, record) == [k \in {key} |-> record]

\* app.tokenMap[key] = record.
Store(tm, key, record) ==
    [k \in DOMAIN tm \cup {key} |-> IF k = key THEN record ELSE tm[k]]

\* oidcCallback, from the userinfo request on: the token is minted and put
\* in the session, then the identity is read from the profile; a profile
\* without 'email' is a KeyError there.
issueToken(req, atr, sess, r, tm, trace) ==
    { LET key   == rndstr(r)
          told  == [trace EXCEPT !.userInfoRequested = TRUE, !.email = email]
          sess1 == [sess EXCEPT !.key = key]
      IN  IF email = None
          THEN Raises(Exc("KeyError", None), sess1, r + 1, tm, told)
          ELSE Returns(redirect("index"),
                       [sess1 EXCEPT !.userId = email], r + 1,
                       Store(tm, key,
                             [code |-> req.args.code,
                              state |-> req.args.state,
                              accessTokenResponse |-> atr,
                              userId |-> email,
                              userInfo |-> email]),
                       told)
      : email \in EmailAnswers }

\* A faulty variant: any returned state is accepted.
stateMatches_always(respState, sessState) == TRUE

\* respState == sessState.
stateMatches(respState, sessState) == respState = sessState

\* A faulty variant: any answer is taken for an access-token response.
isAccessTokenResponse_always(atr) == TRUE

\* isinstance(atr, message.AccessTokenResponse).
isAccessTokenResponse(atr) == atr.isATR

\* A faulty variant: the nonce of the id token is not compared.
nonceMatches_always(sessNonce, atr) == TRUE

\* flask.session.get('nonce') == atrDict['id_token']['nonce'].
nonceMatches(sessNonce, atr) == sessNonce = atr.nonce

\* oidcCallback.
oidcCallback(req, sess, r, tm, trace) ==
    IF oidcClient = None
    THEN {Raises(Exc("NotImplementedException", None), sess, r, tm, trace)}
    ELSE
      LET sessState == sess.state
          respState == req.args.state
      IN  IF ~req.args.valid \/ ~stateMatches(respState, sessState)
          THEN {Raises(Exc("NotAuthenticatedException", None),
                       sess, r, tm, trace)}
          ELSE UNION {
            LET asked == [trace EXCEPT !.tokenRequested = TRUE, !.atr = atr]
            IN  IF ~isAccessTokenResponse(atr)
                THEN {Raises(Exc("NotAuthenticatedException", None),
                             sess, r, tm, asked)}
                ELSE IF ~nonceMatches(sess.nonce, atr)
                THEN {Raises(Exc("NotAuthenticatedException", None),
                             sess, r, tm, asked)}
                ELSE issueToken(req, atr, sess, r, tm, asked)
            : atr \in AtrAnswers }

(***************************************************************************)
(* The requests of the specification.                                      *)
(***************************************************************************)
\* The request lines of the specification.
CurrentVersion == "v0.6.0"

OtherVersion == "v0.6.1"

\* Requests without a body: the status page, a get, a list, a get at another
\* version, an unimplemented route, a path no rule matches, a method the
\* search rule does not answer.
PlainLines ==
    { <<"GET", <<>>>>,
      <<"GET", <<CurrentVersion, "references", "id1">>>>,
      <<"GET", <<CurrentVersion, "references", "id1", "bases">>>>,
      <<"GET", <<OtherVersion, "references", "id1">>>>,
      <<"GET", <<CurrentVersion, "callsets", "id1">>>>,
      <<"GET", <<CurrentVersion, "nosuchpath">>>>,
      <<"PUT", <<CurrentVersion, "variantsets", "search">>>> }

SearchLine == <<"POST", <<CurrentVersion, "variantsets", "search">>>>

CallbackLine == <<"GET", <<"oauth2callback">>>>

RequestLines == PlainLines \cup {SearchLine, CallbackLine}

\* The request lines that exercise the route table: every method below on
\* every path made of a version segment, a resource of the table (or one
\* it does not have) and an id or the literal "search", on the longer
\* paths of the table, and on the callback route.
RoutingMethods == {"GET", "HEAD", "POST", "OPTIONS", "PUT"}

RoutingVersions ==
    {"v0.6.0", "current", "0.6.0", "v0.6.1", "v0.6", "va.b.c",
     "nosuchversion"}

Resources ==
    {Rules[i].pattern[2] :
        i \in {j \in 1..Len(Rules) : Len(Rules[j].pattern) >= 2}}
    \cup {"nosuchresource"}

RoutingIds == {"abc123", "search"}

RoutingPaths ==
    {<<>>, <<"oauth2callback">>}
    \cup {<<v>> : v \in RoutingVersions}
    \cup {<<v, res, id>> :
            v \in RoutingVersions, res \in Resources, id \in RoutingIds}
    \cup {<<v, res, id, "bases">> :
            v \in RoutingVersions, res \in {"references", "sequences"},
            id \in RoutingIds}
    \cup {<<v, "subgraph", what>> :
            v \in RoutingVersions, what \in {"segments", "joins"}}
    \cup {<<v, "variantsets", "abc123", "sequences", sid>> :
            v \in RoutingVersions, sid \in RoutingIds}

RoutingLines == RoutingMethods \X RoutingPaths

\* The router's answer to each request line, computed once.
Resolved ==
    [line \in RequestLines \cup RoutingLines |-> resolve(line[1], line[2])]

(***************************************************************************)
(* One request, from routing to the response.                              *)
(***************************************************************************)
\* The view function of a rule, called on the request.
view(rule, req, sess, r, tm, trace) ==
    CASE rule.kind = "index" -> index(sess, r, tm, trace)
      [] rule.kind = "indexRedirect" -> indexRedirect(req, sess, r, tm, trace)
      [] rule.kind \in {"get", "list"} ->
            handleFlaskGetRequest(req, rule.endpoint, sess, r, tm, trace)
      [] rule.kind = "search" ->
            handleFlaskPostRequest(req, rule.endpoint, sess, r, tm, trace)
      [] rule.kind = "oidcCallback" -> oidcCallback(req, sess, r, tm, trace)
      [] OTHER ->
            {Raises(Exc("NotImplementedException", None), sess, r, tm, trace)}

\* The id a view function is called with: the segment the rule's <id>
\* placeholder matched, None for a rule without one.
idOf(rule, path) ==
    IF Len(rule.pattern) >= 3 /\ rule.pattern[3] \in {ANY, NOSEARCH}
    THEN path[3]
    ELSE None

\* The framework's dispatch: the router's own failure, its own answer to
\* OPTIONS, or the view function.
dispatchRequest(route, req, sess, r, tm, trace) ==
    IF route.raised # None
    THEN {Raises(Exc(route.raised, None), sess, r, tm, trace)}
    ELSE IF req.method = "OPTIONS" /\ AutomaticOptions(route.rule)
    THEN {Returns(getFlaskResponse, sess, r, tm, trace)}
    ELSE view(route.rule, req, sess, r, tm,
              [trace EXCEPT !.view = route.endpoint,
                            !.id = idOf(route.rule, req.path)])

\* The before_request hook, then the dispatch unless the hook answered.
fullDispatchRequest(req, sess, r, tm) ==
    UNION { UNION {
        IF before.outcome # "none"
        THEN {[before EXCEPT !.trace.gate = before.outcome]}
        ELSE dispatchRequest(route, req, before.sess, before.rnd,
                             before.tokenMap,
                             [before.trace EXCEPT !.gate = before.outcome])
        : before \in {checkAuthentication(req, route.endpoint, sess, r, tm)} }
        : route \in {Resolved[<<req.method, req.path>>]} }

\* The framework's own failures (werkzeug HTTP exceptions), by status code.
HttpExceptions == {"400", "403", "404", "405"}

\* The framework's answer to one of its own failures when no handler is
\* registered for its code: its default HTML page, with that status.
defaultPage(code) == [kind |-> "html", error |-> None, arg |-> code]

\* The error handlers: pathNotFoundHandler (404), methodNotAllowedHandler
\* (405), notAuthenticatedHandler (403), and handleException for every
\* other exception.  A failure of the framework is looked up by its code
\* only: the handler registered for Exception does not see it.
errorHandler(exc) ==
    CASE exc.kind = "404" ->
            handleException(Exc("PathNotFoundException", None))
      [] exc.kind = "405" ->
            handleException(Exc("MethodNotAllowedException", None))
      [] exc.kind = "403" ->
            handleException(Exc("NotAuthenticatedException", None))
      [] exc.kind \in HttpExceptions -> defaultPage(exc.kind)
      [] OTHER -> handleException(exc)

\* The response of a stage.
responseOf(st) == IF st.outcome = "raise" THEN errorHandler(st.exc) ELSE st.resp

NoLast ==
    [req |-> [sess |-> None, method |-> None, path |-> <<>>, keyArg |-> None,
              mimetype |-> None, body |-> NoDatasetIds, args |-> NoArgs],
     resp |-> getFlaskResponse, trace |-> NoTrace, exc |-> NoExc]

\* A worker that is in no callback.
Idle ==
    [pc |-> "idle", args |-> NoArgs, sess |-> EmptySession, atr |-> NoATR,
     key |-> None, email |-> None, exc |-> NoExc, issued |-> {}]

\* No version string handed to isCurrentVersion yet.
NoCheck ==
    [input |-> <<>>, done |-> FALSE, raised |-> None, value |-> FALSE,
     parsed |-> FALSE]

\* One request handled to completion.
Handle(req) ==
    \E st \in fullDispatchRequest(req, session[req.sess], rnd, tokenMap) :
        /\ st.rnd <= MaxRnd
        /\ session' = IF req.sess \in Browsers
                      THEN [session EXCEPT ![req.sess] = st.sess]
                      ELSE session
        /\ rnd' = st.rnd
        /\ tokenMap' = st.tokenMap
        /\ last' = [req |-> req, resp |-> responseOf(st), trace |-> st.trace,
                    exc |-> st.exc]
        /\ UNCHANGED <<oidcClient, permissions, inflight, checked>>

\* The 'key' query parameter: absent, a value no login issued, or a token
\* of the token map.
KeyArgs == {None, "guess"} \cup DOMAIN tokenMap

\* The state a callback may return: one no session holds, or one a session
\* holds.
States == {"guess"} \cup ({session[s].state : s \in DOMAIN session} \ {None})

Req(s, line, keyArg, mimetype, body, args) ==
    [sess |-> s, method |-> line[1], path |-> line[2], keyArg |-> keyArg,
     mimetype |-> mimetype, body |-> body, args |-> args]

\* The content type and body of a search request: JSON with each body, and
\* another content type with a body that names no dataset or all of them.
SearchBodies ==
    {<<MIMETYPE, body>> : body \in Bodies} \cup
    {<<"text/plain", NoDatasetIds>>,
     <<"text/plain", [hasDatasetIds |-> TRUE, datasetIds |-> <<"ds1", "ds2">>,
                      malformed |-> FALSE]>>}

PlainRequest(s, line, keyArg) ==
    /\ Handle(Req(s, line, keyArg, None, NoDatasetIds, NoArgs))
    /\ UNCHANGED restart

SearchRequest(s, keyArg, mimetype, body) ==
    /\ Handle(Req(s, SearchLine, keyArg, mimetype, body, NoArgs))
    /\ UNCHANGED restart

CallbackRequest(s, valid, state, code) ==
    /\ Handle(Req(s, CallbackLine, None, None, NoDatasetIds,
                  [valid |-> valid, state |-> state, code |-> code]))
    /\ UNCHANGED restart

Init ==
    /\ oidcClient \in {None, "client"}
    /\ permissions \in PermissionTables
    /\ tokenMap = [k \in {} |-> None]
    /\ session = [s \in Sessions |-> EmptySession]
    /\ rnd = 0
    /\ last = NoLast
    /\ inflight = [s \in Sessions |-> Idle]
    /\ restart = {}
    /\ checked = NoCheck

Next ==
    \/ \E s \in Sessions, line \in PlainLines, keyArg \in KeyArgs :
          PlainRequest(s, line, keyArg)
    \/ \E s \in Sessions, keyArg \in KeyArgs, mb \in SearchBodies :
          SearchRequest(s, keyArg, mb[1], mb[2])
    \/ \E s \in Sessions, valid \in BOOLEAN, state \in States, code \in Codes :
          CallbackRequest(s, valid, state, code)

Spec == Init /\ [][Next]_vars

(***************************************************************************)
(* The vocabulary of the properties.  A step of the specification handles  *)
(* one request; last' is that request with its response and what it did,   *)
(* and the unprimed variables are the state the request found.             *)
(***************************************************************************)
\* A request has been handled.
Handled == last.req.sess # None

\* The request targets the OIDC callback route.
TargetsCallback(req) ==
    Resolved[<<req.method, req.path>>].endpoint = "oidcCallback"

\* The request is gated: a provider is configured and the request does not
\* target the callback route.
Gated(req) == oidcClient # None /\ ~TargetsCallback(req)

\* The key of the request in the state the request found.
KeyOf(req) == requestKey(req, session[req.sess])

\* The response is the typed error of this kind.
IsError(resp, kind) == resp.kind = "error" /\ resp.error = kind

\* A request to an implemented get, list or search endpoint at the current
\* version, with the method and, for a search, the content type it expects.
WellFormedCall(req) ==
    LET route == Resolved[<<req.method, req.path>>]
    IN  /\ route.raised = None
        /\ route.rule.kind \in {"get", "list", "search"}
        /\ assertCorrectVersion(req.path[1]) = NoExc
        /\ \/ route.rule.kind \in {"get", "list"} /\ req.method = "GET"
           \/ /\ route.rule.kind = "search"
              /\ req.method = "POST"
              /\ req.mimetype = MIMETYPE

\* The identifiers of a list.
Range(seq) == {seq[i] : i \in 1..Len(seq)}

(***************************************************************************)
(* C1: with a provider configured, a request that does not target the      *)
(* callback route reaches a backend operation only if its key (session     *)
(* 'key', else the 'key' parameter) is a key of the token map: with an     *)
(* absent or unknown key no backend operation is called.                   *)
(***************************************************************************)
C1_BackendOnlyWithToken ==
    [][ (Gated(last'.req) /\ last'.trace.backend # None)
            => KeyOf(last'.req) \in DOMAIN tokenMap ]_vars

\* A client got a backend answer with a token passed as 'key' parameter.
C1_Witness ==
    /\ Handled
    /\ oidcClient # None
    /\ last.req.sess \in Clients
    /\ last.req.keyArg \in DOMAIN tokenMap
    /\ last.trace.backend = "getReference"

(***************************************************************************)
(* C2: a gated request whose key is not in the token map ends, when it     *)
(* carries a 'key' parameter, in NotAuthenticated with no login started    *)
(* and the session (its state and nonce) unchanged; when it carries none,  *)
(* in the login redirect of startLogin and not in an error.                *)
(***************************************************************************)
C2_UnauthenticatedOutcome ==
    [][ LET req == last'.req
        IN  (Gated(req) /\ KeyOf(req) \notin DOMAIN tokenMap) =>
              IF req.keyArg # None
              THEN /\ IsError(last'.resp, "NotAuthenticatedException")
                   /\ ~last'.trace.loginStarted
                   /\ session' = session
                   /\ rnd' = rnd
              ELSE /\ last'.resp = redirect("provider")
                   /\ last'.trace.loginStarted
                   /\ rnd' = rnd + 2
                   /\ req.sess \in Browsers =>
                        /\ session'[req.sess].state = rndstr(rnd)
                        /\ session'[req.sess].nonce = rndstr(rnd + 1) ]_vars

\* A browser with a login under way sent an unknown 'key' parameter and was
\* refused.
C2_Witness ==
    /\ Handled
    /\ Gated(last.req)
    /\ last.req.sess \in Browsers
    /\ session[last.req.sess].state # None
    /\ session[last.req.sess].key = None
    /\ last.req.keyArg = "guess"
    /\ IsError(last.resp, "NotAuthenticatedException")

(***************************************************************************)
(* C3: with no provider configured, and for a request that targets the     *)
(* callback route, the gate lets the request through: it does not consult  *)
(* the token map, starts no login and raises nothing.                      *)
(***************************************************************************)
C3_GatePassThrough ==
    (Handled /\ (oidcClient = None \/ TargetsCallback(last.req))) =>
        /\ last.trace.gate = "none"
        /\ ~last.trace.consulted
        /\ ~last.trace.loginStarted

\* A callback of a browser that holds no key, with a provider configured and
\* a token in the map, went through the gate and was refused by the view.
C3_Witness ==
    /\ Handled
    /\ oidcClient # None
    /\ TargetsCallback(last.req)
    /\ session[last.req.sess].key = None
    /\ last.trace.gate = "none"
    /\ IsError(last.resp, "NotAuthenticatedException")

C5_UnknownIdentityRefused ==
    [][ LET req == last'.req
        IN  (/\ Gated(req)
             /\ KeyOf(req) \in DOMAIN tokenMap
             /\ jsonBody(req).hasDatasetIds
             /\ tokenMap[KeyOf(req)].userId \notin DOMAIN permissions) =>
              /\ last'.resp = [kind |-> "error",
                               error |-> "NotAuthenticatedException",
                               arg |-> tokenMap[KeyOf(req)].userId]
              /\ last'.trace.backend = None ]_vars

\* An identity the permission table does not know named a dataset and was
\* refused by name.
C5_Witness ==
    /\ Handled
    /\ Gated(last.req)
    /\ jsonBody(last.req).hasDatasetIds
    /\ IsError(last.resp, "NotAuthenticatedException")
    /\ last.resp.arg = "mallory"
    /\ last.trace.backend = None

(***************************************************************************)
(* C6: a gated request whose key is in the token map, whose JSON body has  *)
(* a datasetIds field and whose identity is in the permission table ends   *)
(* in NotAuthenticated, with no backend operation called, when none of the *)
(* requested identifiers is permitted (an empty list included).            *)
(***************************************************************************)
C6_EmptyIntersectionRefused ==
    [][ LET req == last'.req
        IN  (/\ Gated(req)
             /\ KeyOf(req) \in DOMAIN tokenMap
             /\ jsonBody(req).hasDatasetIds
             /\ tokenMap[KeyOf(req)].userId \in DOMAIN permissions
             /\ Range(jsonBody(req).datasetIds)
                  \cap Range(permissions[tokenMap[KeyOf(req)].userId]) = {})
            => /\ IsError(last'.resp, "NotAuthenticatedException")
               /\ last'.trace.backend = None ]_vars

(***************************************************************************)
(* C7: the datasetIds of a search request handed to the backend are all    *)
(* among the datasets the caller is permitted.                             *)
(***************************************************************************)
C7_BackendSeesPermittedOnly ==
    [][ LET req == last'.req
        IN  (/\ Gated(req)
             /\ KeyOf(req) \in DOMAIN tokenMap
             /\ last'.trace.backend # None
             /\ last'.trace.backendArg.hasDatasetIds)
            => /\ tokenMap[KeyOf(req)].userId \in DOMAIN permissions
               /\ Range(last'.trace.backendArg.datasetIds)
                    \subseteq Range(permissions[tokenMap[KeyOf(req)].userId])
       ]_vars

C9_TokenOrNonceMismatchRefused ==
    [][ LET req == last'.req
            atr == last'.trace.atr
        IN  (/\ oidcClient # None
             /\ TargetsCallback(req)
             /\ req.args.valid
             /\ req.args.state = session[req.sess].state
             /\ (~atr.isATR \/ atr.nonce # session[req.sess].nonce)) =>
              /\ last'.trace.tokenRequested
              /\ IsError(last'.resp, "NotAuthenticatedException")
              /\ tokenMap' = tokenMap
              /\ session' = session
              /\ rnd' = rnd ]_vars

\* The provider answered a matching callback with an id token of another
\* nonce, and the callback was refused.
C9_Witness ==
    /\ Handled
    /\ TargetsCallback(last.req)
    /\ last.req.args.valid
    /\ last.req.args.state = session[last.req.sess].state
    /\ last.trace.tokenRequested
    /\ last.trace.atr.isATR
    /\ last.trace.atr.nonce # session[last.req.sess].nonce
    /\ IsError(last.resp, "NotAuthenticatedException")

(***************************************************************************)
(* C10: a callback with the state and the nonce of the login the session   *)
(* started adds one entry to the token map, under a key the map did not    *)
(* hold, recording the callback's code and state, the access-token         *)
(* response and the identity of the profile; the key is put in the         *)
(* session and the response redirects to the index page.                   *)
(***************************************************************************)
C10_MatchingCallbackIssuesToken ==
    [][ LET req == last'.req
            atr == last'.trace.atr
            s   == req.sess
        IN  (/\ oidcClient # None
             /\ TargetsCallback(req)
             /\ req.args.valid
             /\ req.args.state = session[s].state
             /\ atr.isATR
             /\ atr.nonce = session[s].nonce) =>
              /\ last'.resp = redirect("index")
              /\ session'[s].key \notin DOMAIN tokenMap
              /\ DOMAIN tokenMap' = DOMAIN tokenMap \cup {session'[s].key}
              /\ \A k \in DOMAIN tokenMap : tokenMap'[k] = tokenMap[k]
              /\ tokenMap'[session'[s].key].code = req.args.code
              /\ tokenMap'[session'[s].key].state = req.args.state
              /\ tokenMap'[session'[s].key].accessTokenResponse = atr
              /\ tokenMap'[session'[s].key].userId = last'.trace.email ]_vars

(***************************************************************************)
(* Callbacks on several workers.  The workers are threads of one process:  *)
(* they share app.tokenMap, and each works on the session its caller's     *)
(* cookie carries.  A callback gives way to the other workers while it     *)
(* waits for the provider and between its statements; the session is       *)
(* written back to the cookie with the response.  The history variable    *)
(* last is not kept here: what a callback did is read from inflight.       *)
(***************************************************************************)
\* How many random strings rndstr hands out when workers interleave: two
\* logins of two strings each, and the token of each.
MaxRndConcurrent == 6

\* The callers whose requests interleave.
ConcurrentBrowsers == {"browser", "browser2"}

\* The request that sends a browser without token to the provider.
LoginLine == <<"GET", <<CurrentVersion, "references", "id1">>>>

\* Another field of the worker of session s.
Worker(s, pc, sess, exc) ==
    [inflight EXCEPT ![s] = [@ EXCEPT !.pc = pc, !.sess = sess, !.exc = exc]]

\* A request other than a callback, handled in one piece: the gate reads
\* the token map once and startLogin writes the session only.
gatedRequest(s) ==
    /\ inflight[s].pc = "idle"
    /\ \E st \in fullDispatchRequest(
                    Req(s, LoginLine, None, None, NoDatasetIds, NoArgs),
                    session[s], rnd, tokenMap) :
          /\ st.rnd <= MaxRndConcurrent
          /\ session' = [session EXCEPT ![s] = st.sess]
          /\ rnd' = st.rnd
          /\ tokenMap' = st.tokenMap
    /\ UNCHANGED <<oidcClient, permissions, last, inflight, restart, checked>>

\* oidcCallback up to do_access_token_request: the state is compared, and
\* the worker waits for the token endpoint.
callbackEnters(s, valid, state, code) ==
    /\ inflight[s].pc = "idle"
    /\ oidcClient # None
    /\ LET sess == session[s]
           args == [valid |-> valid, state |-> state, code |-> code]
           mine == [inflight EXCEPT ![s] = [@ EXCEPT !.args = args]]
       IN  inflight' =
             IF ~valid \/ ~stateMatches(state, sess.state)
             THEN [mine EXCEPT ![s] =
                      [@ EXCEPT !.pc = "respond", !.sess = sess,
                                !.exc = Exc("NotAuthenticatedException",
                                            None)]]
             ELSE [mine EXCEPT ![s] =
                      [@ EXCEPT !.pc = "token", !.sess = sess,
                                !.exc = NoExc]]
    /\ UNCHANGED <<oidcClient, permissions, tokenMap, session, rnd, last,
                   restart, checked>>

\* The token endpoint answers: the answer and its nonce are checked, and
\* the worker waits for the userinfo endpoint.
tokenAnswers(s, atr) ==
    /\ inflight[s].pc = "token"
    /\ inflight' =
         IF \/ ~isAccessTokenResponse(atr)
            \/ ~nonceMatches(inflight[s].sess.nonce, atr)
         THEN Worker(s, "respond", inflight[s].sess,
                     Exc("NotAuthenticatedException", None))
         ELSE [inflight EXCEPT ![s] = [@ EXCEPT !.pc = "userinfo",
                                                !.atr = atr]]
    /\ UNCHANGED <<oidcClient, permissions, tokenMap, session, rnd, last,
                   restart, checked>>

\* The userinfo endpoint answers: the token is minted and put in the
\* session, then the identity is read from the profile.
userInfoAnswers(s, email) ==
    /\ inflight[s].pc = "userinfo"
    /\ rnd < MaxRndConcurrent
    /\ rnd' = rnd + 1
    /\ LET key   == rndstr(rnd)
           sess1 == [inflight[s].sess EXCEPT !.key = key]
       IN  inflight' =
             IF email = None
             THEN [inflight EXCEPT ![s] =
                      [@ EXCEPT !.pc = "respond", !.sess = sess1,
                                !.key = key, !.email = None,
                                !.exc = Exc("KeyError", None)]]
             ELSE [inflight EXCEPT ![s] =
                      [@ EXCEPT !.pc = "store",
                                !.sess = [sess1 EXCEPT !.userId = email],
                                !.key = key, !.email = email]]
    /\ UNCHANGED <<oidcClient, permissions, tokenMap, session, last, restart,
                   checked>>

\* app.tokenMap[key] = {...}: one store in the shared map.
recordStored(s) ==
    /\ inflight[s].pc = "store"
    /\ tokenMap' = Store(tokenMap, inflight[s].key,
                         [code |-> inflight[s].args.code,
                          state |-> inflight[s].args.state,
                          accessTokenResponse |-> inflight[s].atr,
                          userId |-> inflight[s].email,
                          userInfo |-> inflight[s].email])
    /\ inflight' = Worker(s, "respond", inflight[s].sess, NoExc)
    /\ UNCHANGED <<oidcClient, permissions, session, rnd, last, restart,
                   checked>>

\* The response, the redirect to the index page or the error: the session
\* is written back to the cookie, and a token that was stored counts as
\* issued to the session.
callbackResponds(s) ==
    /\ inflight[s].pc = "respond"
    /\ session' = [session EXCEPT ![s] = inflight[s].sess]
    /\ inflight' =
         [inflight EXCEPT ![s] =
            [Idle EXCEPT !.issued =
                IF inflight[s].exc = NoExc
                THEN inflight[s].issued
                       \cup {<<inflight[s].key, inflight[s].email>>}
                ELSE inflight[s].issued]]
    /\ UNCHANGED <<oidcClient, permissions, tokenMap, rnd, last, restart,
                   checked>>

InitConcurrent ==
    /\ oidcClient = "client"
    /\ permissions \in PermissionTables
    /\ tokenMap = [k \in {} |-> None]
    /\ session = [s \in ConcurrentBrowsers |-> EmptySession]
    /\ rnd = 0
    /\ last = NoLast
    /\ inflight = [s \in ConcurrentBrowsers |-> Idle]
    /\ restart = {}
    /\ checked = NoCheck

NextConcurrent ==
    \/ \E s \in ConcurrentBrowsers : gatedRequest(s)
    \/ \E s \in ConcurrentBrowsers, valid \in BOOLEAN, state \in States,
          code \in Codes : callbackEnters(s, valid, state, code)
    \/ \E s \in ConcurrentBrowsers, atr \in AtrAnswers : tokenAnswers(s, atr)
    \/ \E s \in ConcurrentBrowsers, email \in EmailAnswers :
          userInfoAnswers(s, email)
    \/ \E s \in ConcurrentBrowsers : recordStored(s)
    \/ \E s \in ConcurrentBrowsers : callbackResponds(s)

SpecConcurrent == InitConcurrent /\ [][NextConcurrent]_vars

\* The tokens the successful callbacks of a session were given.
IssuedTo(s) == {e[1] : e \in inflight[s].issued}

(***************************************************************************)
(* C11: however the callbacks of different sessions interleave, every      *)
(* callback that succeeded has its record in the token map under its own   *)
(* token, with the identity of its own login; no two sessions were given   *)
(* the same token, and once all callbacks are over the token map holds     *)
(* one entry for each successful login.                                    *)
(***************************************************************************)
C11_ConcurrentLoginsKeepTheirEntries ==
    /\ \A s \in DOMAIN inflight : \A e \in inflight[s].issued :
          /\ e[1] \in DOMAIN tokenMap
          /\ tokenMap[e[1]].userId = e[2]
    /\ \A s, t \in DOMAIN inflight :
          s # t => IssuedTo(s) \cap IssuedTo(t) = {}
    /\ (\A s \in DOMAIN inflight : inflight[s].pc = "idle") =>
          /\ DOMAIN tokenMap = UNION {IssuedTo(s) : s \in DOMAIN inflight}
          /\ \A s \in DOMAIN inflight :
                Cardinality(IssuedTo(s)) = Cardinality(inflight[s].issued)

\* Two callbacks in flight at once: each minted its token while the other
\* was under way, both have stored their record and neither has answered
\* yet; the map holds both records, for two identities.
C11_Witness ==
    /\ \A s \in ConcurrentBrowsers :
          /\ inflight[s].pc = "respond"
          /\ inflight[s].exc = NoExc
          /\ inflight[s].key \in DOMAIN tokenMap
          /\ tokenMap[inflight[s].key].userId = inflight[s].email
    /\ inflight["browser"].email # inflight["browser2"].email
    /\ inflight["browser"].key # inflight["browser2"].key

(***************************************************************************)
(* C12: the token map changes only in a callback that succeeds, and then   *)
(* by one entry under a key it did not hold; an entry once stored is       *)
(* never modified or removed.  Login initiation, failed callbacks, gated   *)
(* requests and error handling leave the token map as it was.              *)
(***************************************************************************)
C12_TokenMapOnlyGrows ==
    [][ /\ \A k \in DOMAIN tokenMap :
              k \in DOMAIN tokenMap' /\ tokenMap'[k] = tokenMap[k]
        /\ tokenMap' # tokenMap =>
              /\ TargetsCallback(last'.req)
              /\ last'.trace.view = "oidcCallback"
              /\ last'.resp = redirect("index")
              /\ \E k \in DOMAIN tokenMap' \ DOMAIN tokenMap :
                    DOMAIN tokenMap' = DOMAIN tokenMap \cup {k} ]_vars

\* With two entries stored by two successful callbacks, a callback or a
\* search ended in an error: the map still holds both.
C12_Witness ==
    /\ Handled
    /\ Cardinality(DOMAIN tokenMap) = 2
    /\ last.resp.kind = "error"
    /\ last.trace.view \in {"oidcCallback", "searchVariantSets"}

(***************************************************************************)
(* Logins of one browser, with the history of its failed callbacks.        *)
(***************************************************************************)
\* The sessions that have to start a login again once a request is
\* handled: a session enters when its callback is refused with
\* NotAuthenticated and leaves when startLogin writes a fresh state and
\* nonce to it.
restartAfter(s, handled) ==
    IF handled.trace.loginStarted THEN restart \ {s}
    ELSE IF /\ handled.trace.view = "oidcCallback"
            /\ IsError(handled.resp, "NotAuthenticatedException")
    THEN restart \cup {s}
    ELSE restart

LoginRequest(s) ==
    /\ Handle(Req(s, LoginLine, None, None, NoDatasetIds, NoArgs))
    /\ restart' = restartAfter(s, last')

CallbackAttempt(s, valid, state, code) ==
    /\ Handle(Req(s, CallbackLine, None, None, NoDatasetIds,
                  [valid |-> valid, state |-> state, code |-> code]))
    /\ restart' = restartAfter(s, last')

InitRestart == Init /\ oidcClient # None

NextRestart ==
    \/ \E s \in Browsers : LoginRequest(s)
    \/ \E s \in Browsers, valid \in BOOLEAN, state \in States, code \in Codes :
          CallbackAttempt(s, valid, state, code)

SpecRestart == InitRestart /\ [][NextRestart]_vars

(***************************************************************************)
(* C13: once a callback of a session has failed a verification step, no    *)
(* callback of that session issues a session token until a login has been  *)
(* started again in that session, with a fresh state and nonce.            *)
(***************************************************************************)
C13_FailedCallbackNeedsNewLogin ==
    [][ LET req == last'.req
        IN  (/\ TargetsCallback(req)
             /\ req.sess \in restart) =>
              /\ last'.resp # redirect("index")
              /\ tokenMap' = tokenMap ]_vars

(***************************************************************************)
(* Version.isCurrentVersion on its own: a version string is drawn, and     *)
(* the function is applied to it.                                          *)
(***************************************************************************)
\* The longest version string drawn.
MaxVersionLen == 6

\* The characters of the version strings drawn: the version marker in both
\* cases, two digits, the dot and a letter.
VersionAlphabet == {"v", "V", "0", "6", ".", "a"}

VersionStrings ==
    {currentString} \cup
    UNION {[1..n -> VersionAlphabet] : n \in 0..MaxVersionLen}

versionChecked ==
    /\ ~checked.done
    /\ LET c == isCurrentVersion(checked.input)
       IN  checked' = [input |-> checked.input, done |-> TRUE,
                       raised |-> c.raised, value |-> c.value,
                       parsed |-> c.parsed]
    /\ UNCHANGED <<oidcClient, permissions, tokenMap, session, rnd, last,
                   inflight, restart>>

InitVersion ==
    /\ oidcClient = None
    /\ permissions \in PermissionTables
    /\ tokenMap = [k \in {} |-> None]
    /\ session = [s \in Sessions |-> EmptySession]
    /\ rnd = 0
    /\ last = NoLast
    /\ inflight = [s \in Sessions |-> Idle]
    /\ restart = {}
    /\ checked \in {[NoCheck EXCEPT !.input = cs] : cs \in VersionStrings}

NextVersion == versionChecked

SpecVersion == InitVersion /\ [][NextVersion]_vars

\* What makes a version string well formed: an optional version marker,
\* then three components of digits between dots.
Markers == {"v", "V"}

Digits == {"0", "6"}

Unmarked(cs) == IF cs # <<>> /\ Head(cs) \in Markers THEN Tail(cs) ELSE cs

Components(cs) == Split(Unmarked(cs))

IsNumber(c) == c # <<>> /\ \A i \in 1..Len(c) : c[i] \in Digits

WellFormed(cs) ==
    /\ Len(Components(cs)) = 3
    /\ \A i \in 1..3 : IsNumber(Components(cs)[i])

(***************************************************************************)
(* C14: isCurrentVersion returns true for "current" without parsing it;    *)
(* for a well-formed version string, with or without the version marker,   *)
(* it returns true when the three components are those of the protocol     *)
(* version and false when one of them differs.                             *)
(***************************************************************************)
C14_CurrentVersionRecognised ==
    checked.done =>
        /\ checked.input = currentString =>
              /\ checked.raised = None
              /\ checked.value
              /\ ~checked.parsed
        /\ WellFormed(checked.input) =>
              /\ checked.raised = None
              /\ checked.value
                    = (Components(checked.input) = Components(ProtocolVersion))

\* The protocol version written with the marker was found current.
C14_Witness ==
    /\ checked.done
    /\ checked.input = <<"v", "0", ".", "6", ".", "0">>
    /\ checked.value

(***************************************************************************)
(* C15: for a malformed version string, of fewer or more than three        *)
(* components or with a component that is no number, parsing fails:        *)
(* isCurrentVersion raises, it returns neither true nor false.             *)
(***************************************************************************)
C15_MalformedVersionFails ==
    (/\ checked.done
     /\ checked.input # currentString
     /\ ~WellFormed(checked.input)) => checked.raised # None

(***************************************************************************)
(* The route table and the version gate under every request line.  The     *)
(* caller is a browser: with a provider configured it has logged in (the   *)
(* state the first login of the specification Spec leaves), so that its    *)
(* requests pass the gate and reach routing, views and backend.            *)
(***************************************************************************)
\* The token, record and session of a browser whose first login succeeded.
FirstLogin ==
    [key |-> rndstr(2),
     record |-> [code |-> "c1", state |-> rndstr(0),
                 accessTokenResponse |-> [isATR |-> TRUE, nonce |-> rndstr(1)],
                 userId |-> "alice", userInfo |-> "alice"],
     session |-> [state |-> rndstr(0), nonce |-> rndstr(1),
                  key |-> rndstr(2), userId |-> "alice"]]

InitRouting ==
    /\ oidcClient \in {None, "client"}
    /\ permissions \in PermissionTables
    /\ tokenMap = IF oidcClient = None
                  THEN [k \in {} |-> None]
                  ELSE Store([k \in {} |-> None], FirstLogin.key,
                             FirstLogin.record)
    /\ session = [s \in Sessions |->
                    IF oidcClient # None /\ s \in Browsers
                    THEN FirstLogin.session
                    ELSE EmptySession]
    /\ rnd = IF oidcClient = None THEN 0 ELSE 3
    /\ last = NoLast
    /\ inflight = [s \in Sessions |-> Idle]
    /\ restart = {}
    /\ checked = NoCheck

\* The content type and body sent with a method.
BodiesOf(method) ==
    IF method = "POST" THEN SearchBodies ELSE {<<None, NoDatasetIds>>}

\* One request on the state left by startup and login: these requests
\* leave the session and the token map as they are, so that one request
\* in a behaviour shows what any of them does.
RoutedRequest(s, line, mimetype, body) ==
    /\ ~Handled
    /\ Handle(Req(s, line, None, mimetype, body, NoArgs))
    /\ UNCHANGED restart

NextRouting ==
    \E s \in Browsers, line \in RoutingLines :
        \E mb \in BodiesOf(line[1]) : RoutedRequest(s, line, mb[1], mb[2])

SpecRouting == InitRouting /\ [][NextRouting]_vars

\* The version segment of the request is the current version.
AtCurrentVersion(req) ==
    /\ req.path # <<>>
    /\ isCurrentVersion(CharsOf(req.path[1])).raised = None
    /\ isCurrentVersion(CharsOf(req.path[1])).value

\* The view functions that call the backend.
BackendViews ==
    {Rules[i].endpoint :
        i \in {j \in 1..Len(Rules) : Rules[j].kind \in {"get", "list", "search"}}}

(***************************************************************************)
(* C16: at every endpoint that calls the backend (the gets, the list and   *)
(* the eight searches) the version is checked first: no backend operation  *)
(* is called for a request whose version segment is not the current        *)
(* version.                                                                *)
(***************************************************************************)
C16_VersionGateBeforeBackend ==
    (Handled /\ last.trace.backend # None) =>
        /\ last.trace.view \in BackendViews
        /\ last.trace.backend = last.trace.view
        /\ AtCurrentVersion(last.req)

\* A JSON search at another version was refused before the backend.
C16_Witness ==
    /\ Handled
    /\ Len(last.req.path) = 3
    /\ last.req.path[1] = "v0.6.1"
    /\ last.req.method = "POST"
    /\ last.req.mimetype = MIMETYPE
    /\ last.trace.view = "searchVariantSets"
    /\ last.trace.backend = None
    /\ IsError(last.resp, "VersionNotSupportedException")

(***************************************************************************)
(* C17: a request to a versioned endpoint whose version segment is not     *)
(* the current version, a malformed one included, ends in the 404 of a     *)
(* path that is not found, raised as PathNotFound or as its alias          *)
(* VersionNotSupported; it never ends in ServerError.                      *)
(***************************************************************************)
C17_WrongVersionIsPathNotFound ==
    (/\ Handled
     /\ last.trace.view \in BackendViews
     /\ ~AtCurrentVersion(last.req)) =>
        /\ last.resp.kind = "error"
        /\ last.resp.error
              \in {"PathNotFoundException", "VersionNotSupportedException"}

\* The rules whose pattern matches the path.
MatchingRules(path) ==
    {i \in 1..Len(Rules) : PathMatches(Rules[i].pattern, path)}

\* The methods registered for the path, by any rule that matches it.
RegisteredFor(path) ==
    UNION {AllowedMethods(Rules[i]) : i \in MatchingRules(path)}

\* The search rules that match the path.
SearchRules(path) ==
    {i \in MatchingRules(path) : Rules[i].methods = SEARCH_ENDPOINT_METHODS}

(***************************************************************************)
(* C18: on a registered path, a method that is not registered for it ends  *)
(* in MethodNotAllowed, with no view function called; a search endpoint    *)
(* takes POST and OPTIONS and answers any other method, GET included,      *)
(* with MethodNotAllowed.                                                  *)
(***************************************************************************)
C18_UnregisteredMethodNotAllowed ==
    Handled =>
      LET req == last.req
      IN  /\ (/\ MatchingRules(req.path) # {}
              /\ req.method \notin RegisteredFor(req.path)) =>
                 /\ IsError(last.resp, "MethodNotAllowedException")
                 /\ last.trace.view = None
          /\ SearchRules(req.path) # {} =>
                IF req.method \in SEARCH_ENDPOINT_METHODS
                THEN /\ \E i \in SearchRules(req.path) :
                           last.trace.view = Rules[i].endpoint
                     /\ ~IsError(last.resp, "MethodNotAllowedException")
                ELSE /\ IsError(last.resp, "MethodNotAllowedException")
                     /\ last.trace.view = None

\* The resources that have a search route and a get-by-id route.
SearchableResources ==
    {"variantsets", "references", "referencesets", "callsets", "variants",
     "datasets", "readgroupsets", "alleles"}

\* The get-by-id view function of a resource.
GetByIdView(res) ==
    Rules[CHOOSE i \in 1..Len(Rules) :
            Rules[i].pattern \in {<<ANY, res, ANY>>, <<ANY, res, NOSEARCH>>}
         ].endpoint

(***************************************************************************)
(* C19: for a resource with a search route and a get-by-id route, a path   *)
(* whose id segment is the literal "search" is never handled by the        *)
(* get-by-id view function, and a GET with any other id is handled by it,  *)
(* with that id.                                                           *)
(***************************************************************************)
C19_SearchIsNoId ==
    (/\ Handled
     /\ Len(last.req.path) = 3
     /\ last.req.path[2] \in SearchableResources) =>
        /\ last.req.path[3] = "search" =>
              last.trace.view # GetByIdView(last.req.path[2])
        /\ (last.req.path[3] # "search" /\ last.req.method = "GET") =>
              /\ last.trace.view = GetByIdView(last.req.path[2])
              /\ last.trace.id = last.req.path[3]

(***************************************************************************)
(* C20: a POST to a search endpoint at the current version with a content  *)
(* type other than application/json ends in UnsupportedMediaType whatever  *)
(* the body holds; the body is not read and no backend operation is        *)
(* called.                                                                 *)
(***************************************************************************)
C20_OtherMediaTypeRefused ==
    (/\ Handled
     /\ last.req.method = "POST"
     /\ Resolved[<<last.req.method, last.req.path>>].rule.kind = "search"
     /\ AtCurrentVersion(last.req)
     /\ last.req.mimetype # MIMETYPE) =>
        /\ IsError(last.resp, "UnsupportedMediaTypeException")
        /\ ~last.trace.bodyRead
        /\ last.trace.backend = None

\* A logged-in browser posted a body naming datasets as text/plain and got
\* UnsupportedMediaType.
C20_Witness ==
    /\ Handled
    /\ oidcClient # None
    /\ last.req.method = "POST"
    /\ last.req.mimetype = "text/plain"
    /\ last.req.body.hasDatasetIds
    /\ last.trace.view = "searchReads"
    /\ last.trace.gate = "none"
    /\ IsError(last.resp, "UnsupportedMediaTypeException")

(***************************************************************************)
(* The failures of a request, stage by stage.  The caller is a browser     *)
(* that has logged in when a provider is configured, or a client without   *)
(* cookie; one request is handled on that state.                           *)
(***************************************************************************)
\* The HTTP status of each kind of typed error (the httpStatus attribute of
\* its class in ga4gh.exceptions), as the error table gives it.
httpStatus(kind) ==
    CASE kind = "PathNotFoundException" -> 404
      [] kind = "VersionNotSupportedException" -> 404
      [] kind = "ObjectNotFoundException" -> 404
      [] kind = "MethodNotAllowedException" -> 405
      [] kind = "UnsupportedMediaTypeException" -> 415
      [] kind = "NotAuthenticatedException" -> 403
      [] kind = "NotImplementedException" -> 501
      [] OTHER -> 500

\* The status of a response: getFlaskResponse(responseString) answers 200,
\* handleException the httpStatus of the exception it serialises,
\* flask.redirect 302, and the framework's default page the code of the
\* failure.
statusOf(resp) ==
    CASE resp.kind = "error" -> httpStatus(resp.error)
      [] resp.kind = "redirect" -> 302
      [] resp.kind = "html" ->
            (CASE resp.arg = "400" -> 400
               [] resp.arg = "403" -> 403
               [] resp.arg = "404" -> 404
               [] OTHER -> 405)
      [] OTHER -> 200

\* The request lines that fail at one stage or another: those of the
\* specification, a get whose version segment does not parse, and a method
\* the search rule does not answer, at another version.
FailureLines ==
    PlainLines \cup
    { <<"GET", <<"nosuchversion", "references", "abc123">>>>,
      <<"GET", <<"v0.6", "references", "abc123">>>>,
      <<"PUT", <<OtherVersion, "variantsets", "search">>>> }

\* The content type and body of a search: those of the specification, and a
\* body declared as JSON that does not parse.
FailureBodies == SearchBodies \cup {<<MIMETYPE, MalformedBody>>}

FailingRequest(s, line, keyArg) ==
    /\ ~Handled
    /\ Handle(Req(s, line, keyArg, None, NoDatasetIds, NoArgs))
    /\ UNCHANGED restart

FailingSearch(s, keyArg, mimetype, body) ==
    /\ ~Handled
    /\ Handle(Req(s, SearchLine, keyArg, mimetype, body, NoArgs))
    /\ UNCHANGED restart

FailingCallback(s, valid, state, code) ==
    /\ ~Handled
    /\ Handle(Req(s, CallbackLine, None, None, NoDatasetIds,
                  [valid |-> valid, state |-> state, code |-> code]))
    /\ UNCHANGED restart

InitFailures == InitRouting

NextFailures ==
    \/ \E s \in Sessions, line \in FailureLines, keyArg \in KeyArgs :
          FailingRequest(s, line, keyArg)
    \/ \E s \in Sessions, keyArg \in KeyArgs, mb \in FailureBodies :
          FailingSearch(s, keyArg, mb[1], mb[2])
    \/ \E s \in Sessions, valid \in BOOLEAN, state \in States, code \in Codes :
          FailingCallback(s, valid, state, code)

SpecFailures == InitFailures /\ [][NextFailures]_vars

\* The codes of the framework's failures that have a handler registered.
HandledCodes == {"404", "405", "403"}

(***************************************************************************)
(* C21: a failure raised at any stage of a request is answered by a typed  *)
(* error of the taxonomy, with the HTTP status of its kind: a typed server *)
(* error (a backend not-found included) with its own kind and argument,    *)
(* the framework's 404, 405 and 403 as PathNotFound, MethodNotAllowed and  *)
(* NotAuthenticated, and any other failure as ServerError (500).           *)
(***************************************************************************)
C21_FailuresAreTyped ==
    (Handled /\ last.exc # NoExc) =>
        /\ last.resp.kind = "error"
        /\ last.resp.error \in BaseServerExceptions
        /\ statusOf(last.resp) = httpStatus(last.resp.error)
        /\ last.exc.kind \in BaseServerExceptions =>
              /\ last.resp.error = last.exc.kind
              /\ last.resp.arg = last.exc.arg
        /\ last.exc.kind = "404" =>
              IsError(last.resp, "PathNotFoundException")
        /\ last.exc.kind = "405" =>
              IsError(last.resp, "MethodNotAllowedException")
        /\ last.exc.kind = "403" =>
              IsError(last.resp, "NotAuthenticatedException")
        /\ last.exc.kind \notin BaseServerExceptions \cup HandledCodes =>
              /\ IsError(last.resp, "ServerError")
              /\ statusOf(last.resp) = 500

\* The view functions of the unimplemented routes.
UnimplementedViews ==
    {"getCallset", "getAllele", "getVariant", "getVariantSetSequence",
     "getFeature", "getSequenceBases", "getMode", "getDataset",
     "getReadGroupSet", "getReadGroup", "searchGenotypePephenotype",
     "searchIndividuals", "searchSamples", "searchExperiments",
     "searchIndividualGroups", "searchAnalyses", "searchSequences",
     "searchJoins", "subgraphSegments", "subgraphJoins", "searchFeatures",
     "searchVariantSetSequences", "searchAlleles"}

(***************************************************************************)
(* C22: a request that reaches an unimplemented route with a method        *)
(* registered for it ends in NotImplemented whatever its version segment,  *)
(* its id and its body, and no backend operation is called; so does a      *)
(* request to the callback route when no provider is configured.           *)
(***************************************************************************)
C22_UnimplementedIsNotImplemented ==
    Handled =>
      LET req   == last.req
          route == Resolved[<<req.method, req.path>>]
      IN  /\ (/\ route.raised = None
              /\ route.endpoint \in UnimplementedViews
              /\ req.method \in route.rule.methods) =>
                 /\ last.trace.view = route.endpoint
                 /\ IsError(last.resp, "NotImplementedException")
                 /\ last.trace.backend = None
          /\ (/\ route.raised = None
              /\ route.endpoint = "oidcCallback"
              /\ req.method \in route.rule.methods
              /\ oidcClient = None) =>
                 /\ IsError(last.resp, "NotImplementedException")
                 /\ last.trace.backend = None
                 /\ tokenMap = [k \in {} |-> None]

\* A search of an unimplemented resource, at a version that is not the
\* current one and with a body that is not declared as JSON, ended in
\* NotImplemented.
C22_Witness ==
    /\ Handled
    /\ last.req.method = "POST"
    /\ last.req.path = <<"v0.6.1", "individuals", "search">>
    /\ last.req.mimetype = "text/plain"
    /\ last.req.body.hasDatasetIds
    /\ last.trace.view = "searchIndividuals"
    /\ IsError(last.resp, "NotImplementedException")

\* The path is that of an endpoint that calls the backend.
OnBackendRoute(path) ==
    \E i \in MatchingRules(path) : Rules[i].endpoint \in BackendViews

\* The version segment of the request parses and is not the current
\* version.
AtOtherVersion(req) ==
    /\ req.path # <<>>
    /\ isCurrentVersion(CharsOf(req.path[1])).raised = None
    /\ ~isCurrentVersion(CharsOf(req.path[1])).value

(***************************************************************************)
(* C23: a request is checked by the auth gate, then the version gate,      *)
(* then the route registry, then the backend, and is answered by the       *)
(* first stage that fails.  A gated request without a known token gets the *)
(* login redirect, or NotAuthenticated when it carries a 'key' parameter,  *)
(* whatever its path and version, and no view function is called; a        *)
(* request past the auth gate to a backend endpoint at a version that is   *)
(* not the current one gets the version rejection, whatever its method     *)
(* and content type.                                                       *)
(***************************************************************************)
C23_EarliestFailingStage ==
    [][ LET req == last'.req
        IN  /\ (Gated(req) /\ KeyOf(req) \notin DOMAIN tokenMap) =>
                 /\ last'.trace.gate # "none"
                 /\ last'.trace.view = None
                 /\ last'.trace.backend = None
                 /\ IF req.keyArg # None
                    THEN IsError(last'.resp, "NotAuthenticatedException")
                    ELSE last'.resp = redirect("provider")
            /\ (/\ last'.trace.gate = "none"
                /\ OnBackendRoute(req.path)
                /\ AtOtherVersion(req)) =>
                 /\ last'.resp.kind = "error"
                 /\ last'.resp.error \in {"PathNotFoundException",
                                         "VersionNotSupportedException"}
                 /\ last'.trace.backend = None ]_vars

(***************************************************************************)
(* C24: the gate resolves the token from the session's key when the        *)
(* session holds one, whatever 'key' parameter the request carries, and    *)
(* from the 'key' parameter only when the session holds none.  When the    *)
(* key so resolved is in the token map the caller is the identity of that  *)
(* key: no login is started, and a refusal names that identity.  When it   *)
(* is not, the request ends in NotAuthenticated if it carries a 'key'      *)
(* parameter and in the login redirect if it carries none.                 *)
(***************************************************************************)
C24_SessionKeyResolvesToken ==
    [][ LET req  == last'.req
            sess == session[req.sess]
            key  == IF sess.key # None THEN sess.key ELSE req.keyArg
        IN  Gated(req) =>
              IF key \in DOMAIN tokenMap
              THEN /\ ~last'.trace.loginStarted
                   /\ last'.trace.gate \in {"none", "raise"}
                   /\ last'.trace.gate = "raise" =>
                         /\ IsError(last'.resp, "NotAuthenticatedException")
                         /\ last'.resp.arg = tokenMap[key].userId
              ELSE IF req.keyArg # None
              THEN /\ IsError(last'.resp, "NotAuthenticatedException")
                   /\ last'.resp.arg = None
                   /\ ~last'.trace.loginStarted
              ELSE /\ last'.resp = redirect("provider")
                   /\ last'.trace.loginStarted ]_vars

\* A browser whose session key is not in the token map passed a token of
\* the map as 'key' parameter and was refused.
C24_Witness ==
    /\ Handled
    /\ Gated(last.req)
    /\ last.req.sess \in Browsers
    /\ session[last.req.sess].key # None
    /\ session[last.req.sess].key \notin DOMAIN tokenMap
    /\ last.req.keyArg \in DOMAIN tokenMap
    /\ last.trace.gate = "raise"
    /\ IsError(last.resp, "NotAuthenticatedException")

(***************************************************************************)
(* C25: between requests, a session that holds a 'key' written by the      *)
(* callback has a record in the token map under that key, whichever way    *)
(* its callbacks ended.                                                    *)
(***************************************************************************)
C25_SessionKeyHasRecord ==
    \A s \in DOMAIN session :
        session[s].key # None => session[s].key \in DOMAIN tokenMap

(***************************************************************************)
(* Logins started again in one browser session, and callbacks that return  *)
(* the state of the latest login or of an earlier one.                     *)
(***************************************************************************)
\* The strings rndstr has handed out so far.
IssuedStrings == {rndstr(i) : i \in 0..(rnd - 1)}

LoginAgain(s) ==
    /\ Handle(Req(s, LoginLine, None, None, NoDatasetIds, NoArgs))
    /\ UNCHANGED restart

\* A callback returning any state handed out so far, or one never handed
\* out.
CallbackReturning(s, valid, state, code) ==
    /\ Handle(Req(s, CallbackLine, None, None, NoDatasetIds,
                  [valid |-> valid, state |-> state, code |-> code]))
    /\ UNCHANGED restart

InitRelogin == Init /\ oidcClient # None

NextRelogin ==
    \/ \E s \in Browsers : LoginAgain(s)
    \/ \E s \in Browsers, valid \in BOOLEAN,
          state \in States \cup IssuedStrings, code \in Codes :
          CallbackReturning(s, valid, state, code)

SpecRelogin == InitRelogin /\ [][NextRelogin]_vars

\* The session has started a login more than once: its state is not the
\* state of the first login, which is the first string handed out.
Relogged(s) == session[s].state \notin {None, rndstr(0)}

(***************************************************************************)
(* C26: a login initiation replaces the state and the nonce of the session *)
(* by strings never handed out before.  Once a session has started a login *)
(* again, a callback returning another state than the latest (that of the  *)
(* earlier login included) ends in NotAuthenticated with no token issued,  *)
(* and a callback returning the latest state, with an id token of the      *)
(* latest nonce, succeeds: the token is stored and put in the session, and *)
(* the response redirects to the index page.                               *)
(***************************************************************************)
C26_LatestLoginOnly ==
    [][ LET req == last'.req
            s   == req.sess
            atr == last'.trace.atr
        IN  /\ last'.trace.loginStarted =>
                 /\ session'[s].state \notin IssuedStrings
                 /\ session'[s].nonce \notin IssuedStrings
                 /\ session'[s].state # session'[s].nonce
            /\ (TargetsCallback(req) /\ Relogged(s)) =>
                 IF req.args.state # session[s].state
                 THEN /\ IsError(last'.resp, "NotAuthenticatedException")
                      /\ ~last'.trace.tokenRequested
                      /\ tokenMap' = tokenMap
                 ELSE (/\ req.args.valid
                       /\ atr.isATR
                       /\ atr.nonce = session[s].nonce) =>
                         /\ last'.resp = redirect("index")
                         /\ session'[s].key \in DOMAIN tokenMap'
                         /\ session'[s].key \notin DOMAIN tokenMap ]_vars

====
